---- MODULE Spec2Model ----
(***************************************************************************)
(* Model of the per-key token-bucket rate limiter of                       *)
(* fiber/middleware/ratelimit.go (RateLimiter.take and its helpers).       *)
(*                                                                         *)
(* Time is counted in ticks; TicksPerSecond ticks make one time.Second.    *)
(* A time.Time is the number of ticks since the limiter was constructed    *)
(* and a time.Duration a number of ticks (an integer, as in Go, so the     *)
(* float-to-Duration conversion truncates to a whole tick).                *)
(* bucket.tokens (a float64) is kept exactly, in units of 1/Minute of a    *)
(* token: elapsed.Minutes() * rate tokens are (elapsed ticks) * rate       *)
(* units.  Floating-point rounding is not modelled.                        *)
(***************************************************************************)
EXTENDS Integers, FiniteSets, Sequences, TLC

\* ------------------------------------------------------------------ bounds
\* the clock's ticks in one time.Second
TicksPerSecond == 2
\* rl.maxBuckets (defaultMaxBuckets, 10000 in the code)
maxBuckets     == 2
\* the concurrent callers of take
NProcs         == 2
\* how many times the clock moves in a behaviour
MaxAdvance     == 2
\* the same, where the callers wait for the mutex or for the middleware
MaxAdvanceLive == 1
\* the requests the middleware receives in a behaviour
MaxRequests    == 2
\* the calls of IncLabeled in a behaviour
MaxIncs        == 2
\* the evictions of one key's bucket that are followed
MaxChurn       == 1

\* --------------------------------------------------------------- constants
Second == TicksPerSecond
Minute == 60 * Second
bucketCleanupInterval   == 5 * Minute
bucketInactiveThreshold == 15 * Minute
defaultMaxBuckets       == 10000

KeyNames == <<"a", "b", "c", "d", "e">>
\* maxBuckets + 1 keys, the empty string among them (take accepts any string)
Keys  == {""} \cup {KeyNames[i] : i \in 1..maxBuckets}
\* rate is an int the caller chooses: a non-positive one, 1 (burst 1) and
\* 9 (burst 4, and 9 does not divide a minute's ticks).  rate = 0 makes
\* deficit / rate infinite, whose conversion to time.Duration depends on
\* the platform; it is not among the modelled inputs.
Rates == {-1, 1, 9}
\* the rate of the callers that share the table: a burst of 2
TableRates == {4}
Procs == 1..NProcs
NoProc == 0
\* the key whose calls are compared with a limiter of its own
SoloKey == "a"
\* the rates of the callers compared so: a non-positive one and burst 2
SoloRates == {-1, 4}

VARIABLES
  clock,        \* time.Now(): ticks since construction
  nadv,         \* number of clock movements so far
  mu,           \* rl.mu: NoProc, or the caller holding the lock
  buckets,      \* rl.buckets: key -> bucket (a partial function on Keys)
  lastCleanup,  \* rl.lastCleanup
  pc,           \* each caller's position in take
  key,          \* each caller's argument key
  rate,         \* each caller's argument rate
  now,          \* each caller's local now
  ret,          \* each caller's last returned (allowed, retryAfter)
  snap,         \* history: the limiter as it was when the lock was taken
  hist,         \* history: per bucket, what its calls decided since creation
  solo,         \* history: the limiter that sees only the calls of SoloKey
  soloRet,      \* history: what that limiter returned to the current call
  fullSeen,     \* history: some call met a full table with an unseen key
  lowRate,      \* history: some call of SoloKey had a rate below 1
  nfresh,       \* history: calls returned so far, -1 once one found its key
  watch,        \* which of the histories this specification records
  pending,      \* history: per key, the rejection its latest call returned
  churn,        \* history: per key, its admissions and its evictions
  twin,         \* history: the table of the limiter that never sweeps
  ratePerMin,   \* rl.ratePerMin
  rlMaxBuckets, \* rl.maxBuckets
  ratePerMinArg,\* history: the argument NewRateLimiter was given
  cfg,          \* the middleware's reg != nil and cfg.RateGetter != nil
  mwpc,         \* each request's position in the middleware
  mwres,        \* each request's allowed, retryAfter (line 230)
  resp,         \* each request's response, and what it did on the way
  reg,          \* the registry's counters RateAllowed and RateRejected
  served,       \* history: requests received, admitted, completed
  rmu,          \* the registry's r.mu: its writer and its readers
  labeled,      \* r.labeled: key -> counter
  counters,     \* the Counters created so far, by identity: their values
  ipc,          \* each goroutine's position in IncLabeled
  iarg,         \* each goroutine's arguments metric, labels
  ikey,         \* each goroutine's local key
  ic,           \* each goroutine's local c (0: nil)
  calls         \* history: per arguments, the calls returned and the
                \* counters they incremented

\* the limiter's fields that stay as NewRateLimiter set them
rlConf == <<ratePerMin, rlMaxBuckets, ratePerMinArg>>

\* the middleware's state
mwVars == <<cfg, mwpc, mwres, resp, reg, served>>

\* the registry's state
regVars == <<rmu, labeled, counters, ipc, iarg, ikey, ic, calls>>

vars == <<clock, nadv, mu, buckets, lastCleanup, pc, key, rate, now, ret,
          snap, hist, solo, soloRet, fullSeen, lowRate, nfresh, watch,
          pending, churn, twin, rlConf, mwVars, regVars>>

\* ---------------------------------------------------------------- helpers
Max(a, b) == IF a >= b THEN a ELSE b

\* Go's integer division truncates toward zero
GoDiv(a, b) == IF a >= 0 THEN a \div b ELSE -((-a) \div b)

\* the conversion time.Duration(x) of a float x = num / den truncates toward zero
TruncQuot(num, den) ==
  IF den > 0
  THEN (IF num >= 0 THEN num \div den ELSE -((-num) \div den))
  ELSE (IF num >= 0 THEN -(num \div (-den)) ELSE (-num) \div (-den))

Drop(f, ks) == [k \in (DOMAIN f) \ ks |-> f[k]]

\* ------------------------------------------------------- the limiter's code
\* (variant: the floor of 1 forgotten)
dynBurstNoFloor(r) == GoDiv(r, 2)

\* dynBurst := rate / 2; if dynBurst < 1 { dynBurst = 1 }
dynBurst(r) == Max(1, GoDiv(r, 2))

\* (variant: the cap is the whole rate, not half of it)
maxTokensFullRate(r) == Max(1, r) * Minute

\* maxTokens := float64(rate / 2); if maxTokens < 1 { maxTokens = 1 }
maxTokens(r) == Max(1, GoDiv(r, 2)) * Minute

\* (variant: the new bucket holds the whole rate)
NewBucketFullRate(r, t) == [tokens |-> Max(1, r) * Minute, last |-> t, accessed |-> t]

\* b = &bucket{tokens: float64(dynBurst), last: now, accessed: now}
NewBucket(r, t) == [tokens |-> dynBurst(r) * Minute, last |-> t, accessed |-> t]

\* (variant: After instead of Before)
StaleKeysAfter(bs, t) ==
  {k \in DOMAIN bs : bs[k].accessed > t - bucketInactiveThreshold}

\* the keys cleanupStaleBuckets deletes: b.accessed.Before(now - threshold)
StaleKeys(bs, t) ==
  {k \in DOMAIN bs : bs[k].accessed < t - bucketInactiveThreshold}

\* (variant: a bucket accessed exactly the threshold ago is deleted too)
cleanupStaleBucketsInclusive(bs, t) ==
  Drop(bs, {k \in DOMAIN bs : bs[k].accessed <= t - bucketInactiveThreshold})

\* for key, b := range rl.buckets { if stale { delete(rl.buckets, key) } }
cleanupStaleBuckets(bs, t) == Drop(bs, StaleKeys(bs, t))

\* (variant: the sweep waits for twice the inactivity threshold)
SweepDueRare(lc, t) == t - lc > 2 * bucketInactiveThreshold

\* (variant: the sweep waits for the inactivity threshold, not the interval)
SweepDueLate(lc, t) == t - lc > bucketInactiveThreshold + bucketCleanupInterval

\* now.Sub(rl.lastCleanup) > bucketCleanupInterval
SweepDue(lc, t) == t - lc > bucketCleanupInterval

\* (variant: the scan keeps the most recently accessed key)
NewestKeys(bs) ==
  {k \in DOMAIN bs : \A j \in DOMAIN bs : ~(bs[j].accessed > bs[k].accessed)}

\* evictOldestBucket's scan keeps the first key it meets whose accessed is
\* not after any other's; the map's iteration order is random, so it can be
\* any key of least accessed time.
OldestKeys(bs) ==
  {k \in DOMAIN bs : \A j \in DOMAIN bs : ~(bs[j].accessed < bs[k].accessed)}

\* if oldestKey != "" { delete; return true }; return false
EvictOk(victim) == victim # ""

\* (variant: > instead of >=)
TableFullStrict(bs) == Cardinality(DOMAIN bs) > rlMaxBuckets

\* (variant: full one bucket early)
TableFullEarly(bs) == Cardinality(DOMAIN bs) >= rlMaxBuckets - 1

\* len(rl.buckets) >= rl.maxBuckets
TableFull(bs) == Cardinality(DOMAIN bs) >= rlMaxBuckets

\* (variant: the cap at the burst capacity forgotten)
RefilledNoCap(b, r, t) ==
  LET elapsed == t - b.last
  IN  IF elapsed > 0
      THEN [tokens |-> b.tokens + elapsed * r, last |-> t, accessed |-> t]
      ELSE [b EXCEPT !.accessed = t]

\* (variant: b.accessed = now forgotten)
RefilledNoTouch(b, r, t) ==
  LET elapsed == t - b.last
      added   == b.tokens + elapsed * r
  IN  IF elapsed > 0
      THEN [tokens   |-> IF added > maxTokens(r) THEN maxTokens(r) ELSE added,
            last     |-> t,
            accessed |-> b.accessed]
      ELSE b

\* (variant: the refill waits for a whole minute to have elapsed)
RefilledWholeMinutes(b, r, t) ==
  LET elapsed == t - b.last
      added   == b.tokens + elapsed * r
  IN  IF elapsed >= Minute
      THEN [tokens   |-> IF added > maxTokens(r) THEN maxTokens(r) ELSE added,
            last     |-> t,
            accessed |-> t]
      ELSE [b EXCEPT !.accessed = t]

\* (variant: b.last = now forgotten)
RefilledKeepLast(b, r, t) ==
  LET elapsed == t - b.last
      added   == b.tokens + elapsed * r
  IN  IF elapsed > 0
      THEN [tokens   |-> IF added > maxTokens(r) THEN maxTokens(r) ELSE added,
            last     |-> b.last,
            accessed |-> t]
      ELSE [b EXCEPT !.accessed = t]

\* b.accessed = now, then the refill of lines 105-118
Refilled(b, r, t) ==
  LET elapsed == t - b.last
      added   == b.tokens + elapsed * r
  IN  IF elapsed > 0
      THEN [tokens   |-> IF added > maxTokens(r) THEN maxTokens(r) ELSE added,
            last     |-> t,
            accessed |-> t]
      ELSE [b EXCEPT !.accessed = t]

\* (variant: any token, however small, admits)
HasTokenAny(b) == b.tokens > 0

\* b.tokens >= 1
HasToken(b) == b.tokens >= Minute

\* b.tokens -= 1
Consumed(b) == [b EXCEPT !.tokens = @ - Minute]

\* deficit := 1 - b.tokens; minutes := deficit / rate;
\* retry := time.Duration(minutes * float64(time.Minute));
\* if retry < time.Second { retry = time.Second }
RetryAfter(b, r) ==
  LET retry == TruncQuot(Minute - b.tokens, r)
  IN  IF retry < Second THEN Second ELSE retry

Allowed == [allowed |-> TRUE, retryAfter |-> 0]
Rejected(d) == [allowed |-> FALSE, retryAfter |-> d]

\* One whole call take(k, r) reading the clock at t, on the limiter
\* st = [buckets, lastCleanup]: the set of (limiter, result) it can end in.
TakeOutcomes(st, k, r, t) ==
  LET due    == SweepDue(st.lastCleanup, t)
      bs1    == IF due THEN cleanupStaleBuckets(st.buckets, t) ELSE st.buckets
      lc1    == IF due THEN t ELSE st.lastCleanup
      finish(bs) ==
        LET b == Refilled(bs[k], r, t)
        IN  IF HasToken(b)
            THEN [buckets |-> [bs EXCEPT ![k] = Consumed(b)],
                  lastCleanup |-> lc1, ret |-> Allowed]
            ELSE [buckets |-> [bs EXCEPT ![k] = b],
                  lastCleanup |-> lc1, ret |-> Rejected(RetryAfter(b, r))]
      create(bs) == finish((k :> NewBucket(r, t)) @@ bs)
  IN  IF k \in DOMAIN bs1
      THEN {finish(bs1)}
      ELSE IF ~TableFull(bs1)
      THEN {create(bs1)}
      ELSE IF DOMAIN bs1 = {}
      THEN {[buckets |-> bs1, lastCleanup |-> lc1, ret |-> Rejected(Minute)]}
      ELSE {IF EvictOk(v)
            THEN create(Drop(bs1, {v}))
            ELSE [buckets |-> bs1, lastCleanup |-> lc1, ret |-> Rejected(Minute)]
            : v \in OldestKeys(bs1)}

\* ------------------------------------------------------------- the state
WatchHist  == "hist" \in watch
WatchSolo  == "solo" \in watch
WatchFresh == "fresh" \in watch
WatchHint  == "hint" \in watch
WatchChurn == "churn" \in watch
WatchTwin  == "twin" \in watch

NoHist == [created |-> -1, rate |-> 0, mixed |-> FALSE, adm |-> 0,
           admNow |-> 0, rejNow |-> FALSE,
           prevInst |-> -1, prevAdm |-> 0, prevRej |-> FALSE]

\* the history of a bucket created at t by a call of rate r
FreshHist(r, t) == [NoHist EXCEPT !.created = t, !.rate = r]

NoSnap == [buckets |-> <<>>, lastCleanup |-> 0]

\* a key that has had no bucket yet
NoChurn == [first |-> -1, latest |-> -1, rate |-> 0, mixed |-> FALSE,
            adm |-> 0, evicted |-> 0]

\* a key that is no longer followed, its bucket evicted too often
Untracked == [NoChurn EXCEPT !.first = -2]

\* the key's latest call was admitted, or there was none
NoPending == [at |-> 0, retryAfter |-> 0, rate |-> 0]

\* ------------------------------------------------------------ the registry
\* label names, in the order sort.Strings puts them
LabelNames == <<"a", "b">>
\* label values, one of them holding the separators of the key
LabelValues == {"1", "2", "1,b=2"}
Metrics == {"m"}

Range(f) == {f[i] : i \in DOMAIN f}

\* map[string]string: the maps from some label names to values
LabelMaps == UNION {[S -> LabelValues] : S \in SUBSET Range(LabelNames)}

\* the arguments of IncLabeled
Inputs == [metric : Metrics, labels : LabelMaps]

\* the orders in which the elements of S can come
Orders(S) ==
  {s \in [1..Cardinality(S) -> S] :
     \A i, j \in 1..Cardinality(S) : i # j => s[i] # s[j]}

Rank(k) == CHOOSE i \in DOMAIN LabelNames : LabelNames[i] = k

\* sort.Strings(keys)
sortStrings(ks) ==
  CHOOSE s \in Orders(Range(ks)) :
    \A i, j \in DOMAIN s : i < j => Rank(s[i]) < Rank(s[j])

\* strings.Join(parts, sep)
RECURSIVE Join(_, _)
Join(parts, sep) ==
  IF parts = <<>> THEN ""
  ELSE IF Len(parts) = 1 THEN parts[1]
  ELSE parts[1] \o sep \o Join(Tail(parts), sep)

\* buildLabelKey, the keys coming out of `for k := range labels` in the
\* order ord: metric|key1=value1,key2=value2 (sorted by key)
buildLabelKey(metric, labels, ord) ==
  IF DOMAIN labels = {}
  THEN metric
  ELSE LET keys  == sortStrings(ord)
           parts == [i \in DOMAIN keys |-> keys[i] \o "=" \o labels[keys[i]]]
       IN  metric \o "|" \o Join(parts, ",")

NoInput == [metric |-> "", labels |-> <<>>]

\* NewRegistry: labeled: make(map[string]*Counter); no caller yet
NewRegistry ==
  /\ rmu = [writer |-> NoProc, readers |-> {}]
  /\ labeled = <<>>
  /\ counters = <<>>
  /\ ipc = [p \in Procs |-> "idle"]
  /\ iarg = [p \in Procs |-> NoInput]
  /\ ikey = [p \in Procs |-> ""]
  /\ ic = [p \in Procs |-> 0]
  /\ calls = [in \in Inputs |-> [n |-> 0, ctrs |-> {}]]

\* --------------------------------------------------------- the constructor
\* (variant: the rate is kept as given)
NewRateLimiterNoDefault(n) ==
  [buckets |-> <<>>, ratePerMin |-> n,
   maxBuckets |-> defaultMaxBuckets, lastCleanup |-> 0]

\* NewRateLimiter: an empty map, the rate (600 if <= 0), the default size of
\* the table, lastCleanup = time.Now()
NewRateLimiter(n) ==
  [buckets |-> <<>>,
   ratePerMin |-> IF n <= 0 THEN 600 ELSE n,
   maxBuckets |-> defaultMaxBuckets, lastCleanup |-> 0]

\* the limiter the calls of take are followed on: NewRateLimiter's, with a
\* table of maxBuckets buckets
TableLimiter == [NewRateLimiter(0) EXCEPT !.maxBuckets = maxBuckets]

\* RateLimitMiddleware(limiter, nil): no registry, no RateGetter
NoConfig == [registry |-> FALSE, rateGetter |-> FALSE]

\* a request that has not been answered
NoResp == [done |-> FALSE, counted |-> <<>>, retryAfter |-> -1,
           mwErr |-> 0, err |-> 0, nexts |-> 0]

NoServed == [received |-> 0, admitted |-> 0, completed |-> 0]

\* the state the limiter rl, constructed from the argument n, and the
\* configuration c leave, recording the histories w
Started(w, rl, n, c) ==
  /\ watch = w
  /\ ratePerMinArg = n
  /\ ratePerMin = rl.ratePerMin
  /\ rlMaxBuckets = rl.maxBuckets
  /\ cfg = c
  /\ mwpc = [p \in Procs |-> "idle"]
  /\ mwres = [p \in Procs |-> Allowed]
  /\ resp = [p \in Procs |-> NoResp]
  /\ reg = [RateAllowed |-> 0, RateRejected |-> 0]
  /\ served = NoServed
  /\ NewRegistry
  /\ clock = 0
  /\ nadv = 0
  /\ mu = NoProc
  /\ buckets = rl.buckets
  /\ lastCleanup = rl.lastCleanup
  /\ pc = [p \in Procs |-> "idle"]
  /\ key = [p \in Procs |-> ""]
  /\ rate = [p \in Procs |-> 1]
  /\ now = [p \in Procs |-> 0]
  /\ ret = [p \in Procs |-> Allowed]
  /\ snap = NoSnap
  /\ hist = [k \in Keys |-> NoHist]
  /\ solo = [buckets |-> rl.buckets, lastCleanup |-> rl.lastCleanup]
  /\ soloRet = Allowed
  /\ fullSeen = FALSE
  /\ lowRate = FALSE
  /\ nfresh = 0
  /\ pending = [k \in Keys |-> NoPending]
  /\ churn = [k \in Keys |-> NoChurn]
  /\ twin = rl.buckets

\* the state NewRateLimiter leaves, recording the histories w
Start(w) == Started(w, TableLimiter, 0, NoConfig)

\* a call of SoloKey is also made, at the same time, on the limiter that
\* sees only the calls of SoloKey (one key never fills a table: one outcome)
SoloReturn(k, r, t) ==
  LET o == CHOOSE x \in TakeOutcomes(solo, k, r, t) : TRUE
  IN  IF WatchSolo /\ k = SoloKey
      THEN /\ solo' = [buckets |-> o.buckets, lastCleanup |-> o.lastCleanup]
           /\ soloRet' = o.ret
      ELSE UNCHANGED <<solo, soloRet>>

\* one more call has returned without having found its key in the table
FreshReturn ==
  nfresh' = IF WatchFresh /\ nfresh >= 0 /\ nfresh <= maxBuckets + 1
            THEN nfresh + 1 ELSE nfresh

\* the buckets the call of p has evicted: those it found, after its sweep,
\* and has not left
EvictedBy(p) ==
  LET found == IF SweepDue(snap.lastCleanup, now[p])
               THEN cleanupStaleBuckets(snap.buckets, now[p])
               ELSE snap.buckets
  IN  (DOMAIN found) \ (DOMAIN buckets)

\* the history of key k after the call of p
Churned(p, k) ==
  LET c == churn[k]
  IN  IF c.first = -2 THEN c
      ELSE IF k = key[p]
      THEN IF k \notin DOMAIN buckets THEN c
           ELSE [first   |-> IF c.first < 0 THEN now[p] ELSE c.first,
                 latest  |-> now[p],
                 rate    |-> rate[p],
                 mixed   |-> c.mixed \/ (c.first >= 0 /\ c.rate # rate[p]),
                 adm     |-> IF ret[p].allowed THEN c.adm + 1 ELSE c.adm,
                 evicted |-> c.evicted]
      ELSE IF k \in EvictedBy(p)
      THEN IF c.evicted >= MaxChurn THEN Untracked
           ELSE [c EXCEPT !.evicted = @ + 1]
      ELSE c

\* The call of p on the limiter that never sweeps: the ways it can end on
\* the table twin (a limiter whose lastCleanup is the call's now has no
\* sweep due).
TwinOutcomes(p) ==
  TakeOutcomes([buckets |-> twin, lastCleanup |-> now[p]],
               key[p], rate[p], now[p])

\* the ways that return what the call of p returned
TwinMatches(p) == {o \in TwinOutcomes(p) : o.ret = ret[p]}

\* The table of the limiter that never sweeps after the call of p: where the
\* map's iteration order leaves its eviction a choice, it is the choice that
\* returns what the call of p returned and keeps the buckets this limiter
\* has kept, if there is one.
TwinAfter(p) ==
  LET close == {o \in TwinMatches(p) : DOMAIN buckets \subseteq DOMAIN o.buckets}
      o == IF close # {} THEN CHOOSE x \in close : TRUE
           ELSE IF TwinMatches(p) # {} THEN CHOOSE x \in TwinMatches(p) : TRUE
           ELSE CHOOSE x \in TwinOutcomes(p) : TRUE
  IN  o.buckets

\* the call of p returns: what it returned is its key's latest answer
Returning(p) ==
  /\ pending' = IF WatchHint
                THEN [pending EXCEPT ![key[p]] =
                        IF ret[p].allowed
                        THEN NoPending
                        ELSE [at |-> now[p], retryAfter |-> ret[p].retryAfter,
                              rate |-> rate[p]]]
                ELSE pending
  /\ churn' = IF WatchChurn
              THEN [k \in Keys |-> Churned(p, k)]
              ELSE churn
  /\ twin' = IF WatchTwin THEN TwinAfter(p) ELSE twin

\* (variant: no mutual exclusion)
LockFreeAlways == TRUE

\* rl.mu.Lock() returns only when no caller holds the mutex
LockFree == mu = NoProc

\* ------------------------------------------------------------ the actions
\* a caller enters take and reaches rl.mu.Lock(), where it may have to wait
Call(p) ==
  /\ pc[p] = "idle"
  /\ pc' = [pc EXCEPT ![p] = "lock"]
  /\ UNCHANGED <<clock, nadv, mu, buckets, lastCleanup, key, rate, now, ret,
                 snap, hist, solo, soloRet, fullSeen, lowRate, nfresh, watch, pending, churn, twin, rlConf, regVars, mwVars>>

\* The call take(k, r) of caller p gets past rl.mu.Lock().  A caller that
\* finds the mutex held changes nothing while it waits, so entering take and
\* acquiring the mutex are one step where the waiting is of no interest.
Lock(p, k, r) ==
  /\ pc[p] \in {"idle", "lock"}
  /\ LockFree
  /\ mu' = p
  /\ key' = [key EXCEPT ![p] = k]
  /\ rate' = [rate EXCEPT ![p] = r]
  /\ snap' = [buckets |-> buckets, lastCleanup |-> lastCleanup]
  /\ pc' = [pc EXCEPT ![p] = "cleanup"]
  /\ lowRate' = (lowRate \/ (WatchSolo /\ k = SoloKey /\ r < 1))
  /\ UNCHANGED <<clock, nadv, buckets, lastCleanup, now, ret, hist, solo,
                 soloRet, fullSeen, nfresh, watch, pending, churn, twin, rlConf, regVars, mwVars>>

\* now := time.Now(); the periodic cleanup of lines 70-74
Cleanup(p) ==
  /\ pc[p] = "cleanup"
  /\ now' = [now EXCEPT ![p] = clock]
  /\ IF SweepDue(lastCleanup, clock)
     THEN /\ buckets' = cleanupStaleBuckets(buckets, clock)
          /\ lastCleanup' = clock
          /\ hist' = [k \in Keys |->
                        IF k \in DOMAIN buckets' THEN hist[k] ELSE NoHist]
     ELSE UNCHANGED <<buckets, lastCleanup, hist>>
  /\ pc' = [pc EXCEPT ![p] = "lookup"]
  /\ UNCHANGED <<clock, nadv, mu, key, rate, ret, snap, solo, soloRet,
                 fullSeen, lowRate, nfresh, watch, pending, churn, twin, rlConf, regVars, mwVars>>

\* (variant: the failed eviction has deleted the buckets it scanned)
EvictionFailedDropping(p) ==
  /\ ret' = [ret EXCEPT ![p] = Rejected(Minute)]
  /\ pc' = [pc EXCEPT ![p] = "unlock"]
  /\ SoloReturn(key[p], rate[p], now[p])
  /\ FreshReturn
  /\ buckets' = Drop(buckets, OldestKeys(buckets))
  /\ UNCHANGED hist

\* the early return of line 84: return false, time.Minute
EvictionFailed(p) ==
  /\ ret' = [ret EXCEPT ![p] = Rejected(Minute)]
  /\ pc' = [pc EXCEPT ![p] = "unlock"]
  /\ SoloReturn(key[p], rate[p], now[p])
  /\ FreshReturn
  /\ UNCHANGED <<buckets, hist>>

\* b, ok := rl.buckets[key] and, for an unseen key on a full table,
\* evictOldestBucket (lines 77-86)
Lookup(p) ==
  /\ pc[p] = "lookup"
  /\ IF key[p] \in DOMAIN buckets
     THEN /\ pc' = [pc EXCEPT ![p] = "refill"]
          /\ nfresh' = IF WatchFresh THEN -1 ELSE nfresh
          /\ UNCHANGED <<buckets, hist, ret, solo, soloRet>>
     ELSE IF ~TableFull(buckets)
     THEN /\ pc' = [pc EXCEPT ![p] = "create"]
          /\ UNCHANGED <<buckets, hist, ret, solo, soloRet, nfresh>>
     ELSE /\ IF DOMAIN buckets = {}
             THEN EvictionFailed(p)
             ELSE \E v \in OldestKeys(buckets) :
                    IF EvictOk(v)
                    THEN /\ buckets' = Drop(buckets, {v})
                         /\ hist' = [hist EXCEPT ![v] = NoHist]
                         /\ pc' = [pc EXCEPT ![p] = "create"]
                         /\ UNCHANGED <<ret, solo, soloRet, nfresh>>
                    ELSE EvictionFailed(p)
  /\ fullSeen' = (fullSeen \/ (/\ WatchSolo
                                 /\ key[p] \notin DOMAIN buckets
                                 /\ Cardinality(DOMAIN buckets) >= rlMaxBuckets))
  /\ UNCHANGED <<clock, nadv, mu, lastCleanup, key, rate, now, snap, lowRate,
                 watch, pending, churn, twin, rlConf, regVars, mwVars>>

\* lines 88-98: the new bucket, with its initial burst
Create(p) ==
  /\ pc[p] = "create"
  /\ buckets' = (key[p] :> NewBucket(rate[p], now[p])) @@ buckets
  /\ hist' = IF WatchHist
             THEN [hist EXCEPT ![key[p]] = FreshHist(rate[p], now[p])]
             ELSE hist
  /\ pc' = [pc EXCEPT ![p] = "refill"]
  /\ UNCHANGED <<clock, nadv, mu, lastCleanup, key, rate, now, ret, snap,
                 solo, soloRet, fullSeen, lowRate, nfresh, watch, pending, churn, twin, rlConf, regVars, mwVars>>

\* lines 101-118: b.accessed = now and the refill
Refill(p) ==
  LET k == key[p]
      h == hist[k]
      newInstant == buckets[k].accessed # now[p]
  IN  /\ pc[p] = "refill"
      /\ buckets' = [buckets EXCEPT ![k] = Refilled(@, rate[p], now[p])]
      /\ hist' = IF ~WatchHist THEN hist ELSE
                  [hist EXCEPT ![k] =
                    [h EXCEPT !.mixed = h.mixed \/ h.rate # rate[p],
                              !.prevInst = IF newInstant
                                           THEN buckets[k].accessed ELSE @,
                              !.prevAdm = IF newInstant THEN h.admNow ELSE @,
                              !.prevRej = IF newInstant THEN h.rejNow ELSE @,
                              !.admNow = IF newInstant THEN 0 ELSE @,
                              !.rejNow = IF newInstant THEN FALSE ELSE @]]
      /\ pc' = [pc EXCEPT ![p] = "decide"]
      /\ UNCHANGED <<clock, nadv, mu, lastCleanup, key, rate, now, ret, snap,
                     solo, soloRet, fullSeen, lowRate, nfresh, watch, pending, churn, twin, rlConf, regVars, mwVars>>

\* lines 120-134: consume a token, or compute the retry time
Decide(p) ==
  LET k == key[p]
  IN  /\ pc[p] = "decide"
      /\ IF HasToken(buckets[k])
         THEN /\ buckets' = [buckets EXCEPT ![k] = Consumed(@)]
              /\ ret' = [ret EXCEPT ![p] = Allowed]
              /\ hist' = IF WatchHist
                         THEN [hist EXCEPT ![k].adm = @ + 1, ![k].admNow = @ + 1]
                         ELSE hist
         ELSE /\ ret' = [ret EXCEPT ![p] = Rejected(RetryAfter(buckets[k], rate[p]))]
              /\ hist' = IF WatchHist
                         THEN [hist EXCEPT ![k].rejNow = TRUE]
                         ELSE hist
              /\ UNCHANGED buckets
      /\ SoloReturn(k, rate[p], now[p])
      /\ FreshReturn
      /\ pc' = [pc EXCEPT ![p] = "unlock"]
      /\ UNCHANGED <<clock, nadv, mu, lastCleanup, key, rate, now, snap,
                     fullSeen, lowRate, watch, pending, churn, twin, rlConf, regVars, mwVars>>

\* (variant: the early return of line 84 leaves without rl.mu.Unlock())
ReturnEarlyLocked(p) ==
  /\ pc[p] = "unlock"
  /\ mu' = IF key[p] \in DOMAIN buckets THEN NoProc ELSE mu
  /\ snap' = NoSnap
  /\ pc' = [pc EXCEPT ![p] = "idle"]
  /\ key' = [key EXCEPT ![p] = ""]
  /\ rate' = [rate EXCEPT ![p] = 1]
  /\ now' = [now EXCEPT ![p] = 0]
  /\ ret' = [ret EXCEPT ![p] = Allowed]
  /\ soloRet' = Allowed
  /\ Returning(p)
  /\ UNCHANGED <<buckets, lastCleanup, hist, solo, fullSeen, lowRate,
                 nfresh, watch, rlConf, regVars>>

\* defer rl.mu.Unlock(), and the return to the caller
Return(p) ==
  /\ pc[p] = "unlock"
  /\ mu' = NoProc
  /\ snap' = NoSnap
  /\ pc' = [pc EXCEPT ![p] = "idle"]
  /\ key' = [key EXCEPT ![p] = ""]
  /\ rate' = [rate EXCEPT ![p] = 1]
  /\ now' = [now EXCEPT ![p] = 0]
  /\ ret' = [ret EXCEPT ![p] = Allowed]
  /\ soloRet' = Allowed
  /\ Returning(p)
  /\ UNCHANGED <<buckets, lastCleanup, hist, solo, fullSeen, lowRate,
                 nfresh, watch, rlConf, regVars>>

Unlock(p) ==
  /\ Return(p)
  /\ UNCHANGED <<clock, nadv, mwVars>>

\* The clock moves by d, at most max times.  A call reads the clock once,
\* right after taking the lock, and no other caller can read it before the
\* lock is released: time that passes while the lock is held is time that
\* passes after it.
Advance(d, max) ==
  /\ nadv < max
  /\ d > 0
  /\ clock' = clock + d
  /\ nadv' = nadv + 1

\* (variant: a timer refreshes the buckets as time passes)
ElapseRefreshing(d, max) ==
  /\ mu = NoProc
  /\ Advance(d, max)
  /\ buckets' = [k \in DOMAIN buckets |-> [buckets[k] EXCEPT !.last = clock + d]]
  /\ UNCHANGED <<mu, lastCleanup, pc, key, rate, now, ret, snap,
                 hist, solo, soloRet, fullSeen, lowRate, nfresh, watch,
                 pending, churn, twin, rlConf, regVars, mwVars>>

Elapse(d, max) ==
  /\ mu = NoProc
  /\ Advance(d, max)
  /\ UNCHANGED <<mu, buckets, lastCleanup, pc, key, rate, now, ret, snap,
                 hist, solo, soloRet, fullSeen, lowRate, nfresh, watch, pending, churn, twin, rlConf, regVars, mwVars>>

\* a rejected caller returns and waits for the time it was told to
Backoff(p) ==
  /\ ~ret[p].allowed
  /\ Return(p)
  /\ Advance(ret[p].retryAfter, MaxAdvance)
  /\ UNCHANGED mwVars

take(p) ==
  \/ Cleanup(p)
  \/ Lookup(p)
  \/ Create(p)
  \/ Refill(p)
  \/ Decide(p)
  \/ Unlock(p)

\* Concurrent callers sharing the table, every key; the clock moves by a
\* tick (ties or not between the buckets' access times) or by the
\* inactivity threshold (sweeps; a bucket a tick older is stale).
AdvanceSteps == {1, bucketInactiveThreshold}

Tick == \E d \in AdvanceSteps : Elapse(d, MaxAdvance)

Next ==
  \/ \E p \in Procs, k \in Keys, r \in TableRates : Lock(p, k, r)
  \/ \E p \in Procs : take(p)
  \/ Tick

Init == Start({"fresh"})

Spec == Init /\ [][Next]_vars

InitHist == Start({"hist"})

\* the same callers and keys, what each bucket's calls decided recorded
SpecTouch == InitHist /\ [][Next]_vars

\* the same callers and keys; a rejected caller may come back exactly when
\* it was told to; each key's latest rejection is recorded
HintRates == {9}

NextHint ==
  \/ \E p \in Procs, k \in Keys, r \in HintRates : Lock(p, k, r)
  \/ \E p \in Procs : take(p)
  \/ \E p \in Procs : Backoff(p)
  \/ Tick

InitHint == Start({"hint"})

SpecHint == InitHint /\ [][NextHint]_vars

\* the same callers and keys, each key's admissions and evictions recorded
InitChurn == Start({"churn"})

SpecChurn == InitChurn /\ [][Next]_vars

\* the same callers and keys, beside the limiter that gets the same calls
\* and never sweeps
InitTwin == Start({"churn", "twin"})

SpecTwin == InitTwin /\ [][Next]_vars

\* the same callers, beside the limiters that see one key's calls each
InitSolo == Start({"solo"})

NextSolo ==
  \/ \E p \in Procs, r \in SoloRates : Lock(p, SoloKey, r)
  \/ \E p \in Procs, k \in Keys \ {SoloKey}, r \in TableRates : Lock(p, k, r)
  \/ \E p \in Procs : take(p)
  \/ Tick

SpecSolo == InitSolo /\ [][NextSolo]_vars

\* The callers that wait at rl.mu.Lock().  The runtime keeps running every
\* goroutine that can take a step, and sync.Mutex hands the lock to a waiter
\* that has failed to get it for a millisecond (its starvation mode), so a
\* waiting caller is not passed over for ever.  Nothing obliges anyone to
\* call take, nor the clock to reach any time.
Acquire(p, k, r) ==
  /\ pc[p] = "lock"
  /\ Lock(p, k, r)

\* the clock moves past the inactivity threshold
TickLive == Elapse(bucketInactiveThreshold + 1, MaxAdvanceLive)

NextLive ==
  \/ \E p \in Procs : Call(p)
  \/ \E p \in Procs, k \in Keys, r \in TableRates : Acquire(p, k, r)
  \/ \E p \in Procs : take(p)
  \/ TickLive

InitLive == Start({})

Fairness ==
  \A p \in Procs :
    /\ WF_vars(take(p))
    /\ SF_vars(\E k \in Keys, r \in TableRates : Acquire(p, k, r))

SpecLive == InitLive /\ [][NextLive]_vars /\ Fairness

\* One caller, one key, any number of calls, every rate; the clock moves by
\* a tick, a second, a minute, or by the retry time a rejected call returned.
OneCaller == {1}

KeySteps == {1, Second, Minute}

TickKey == \E d \in KeySteps : Elapse(d, MaxAdvance)

NextKey ==
  \/ \E p \in OneCaller, r \in Rates : Lock(p, "a", r)
  \/ \E p \in OneCaller : take(p)
  \/ \E p \in OneCaller : Backoff(p)
  \/ TickKey

SpecKey == InitHist /\ [][NextKey]_vars

\* The scenario of one key at 60 requests a minute, minute by minute.
TickMinute == Elapse(Minute, MaxAdvance)

NextBurst ==
  \/ \E p \in OneCaller : Lock(p, "a", 60)
  \/ \E p \in OneCaller : take(p)
  \/ TickMinute

SpecBurst == InitHist /\ [][NextBurst]_vars

\* --------------------------------------------------------- the middleware
\* RateLimitMiddlewareWithConfig: requests go through the handler of lines
\* 219-251, each in its own goroutine, on the limiter NewRateLimiter made.

\* what cfg.KeyGenerator returns
RawKeys == {"", "a"}
\* the arguments of NewRateLimiter
RateArgs == {-1, 0, 2}
\* what a configured cfg.RateGetter returns
GetterRates == {1}
\* what the downstream handler returns from c.Next(): nil, or an error
DownstreamErrs == {0, 429}

\* if key == "" { key = "anonymous" }
mwKey(raw) == IF raw = "" THEN "anonymous" ELSE raw

\* cfg.RateGetter(c): the configured one, or the default of lines 213-217
mwRate(r) == IF cfg.rateGetter THEN r ELSE ratePerMin

\* (variant: the nearest whole number of seconds)
retryAfterHeaderNearest(d) == GoDiv(2 * d + Second, 2 * Second)

\* strconv.Itoa(int(retryAfter.Seconds())): the conversion to int drops
\* the fraction
retryAfterHeader(d) == GoDiv(d, Second)

\* a request reaches the handler
Receive(p) ==
  /\ mwpc[p] = "idle"
  /\ served.received < MaxRequests
  /\ mwpc' = [mwpc EXCEPT ![p] = "take"]
  /\ mwres' = [mwres EXCEPT ![p] = Allowed]
  /\ resp' = [resp EXCEPT ![p] = NoResp]
  /\ served' = [served EXCEPT !.received = @ + 1]
  /\ UNCHANGED <<clock, nadv, mu, buckets, lastCleanup, pc, key, rate, now,
                 ret, snap, hist, solo, soloRet, fullSeen, lowRate, nfresh,
                 watch, pending, churn, twin, rlConf, regVars, cfg, reg>>

\* lines 221-230: the key, the rate, and limiter.take(key, rate) up to the
\* mutex
Enter(p, raw, r) ==
  /\ mwpc[p] = "take"
  /\ pc[p] = "idle"
  /\ Lock(p, mwKey(raw), mwRate(r))

\* allowed, retryAfter := limiter.take(key, rate): take returns
Returned(p) ==
  /\ mwpc[p] = "take"
  /\ Return(p)
  /\ mwres' = [mwres EXCEPT ![p] = ret[p]]
  /\ served' = IF ret[p].allowed
               THEN [served EXCEPT !.admitted = @ + 1]
               ELSE served
  /\ mwpc' = [mwpc EXCEPT ![p] = "count"]
  /\ UNCHANGED <<clock, nadv, cfg, resp, reg>>

\* (variant: every request is counted as allowed)
CountAllowedOnly(p) ==
  /\ mwpc[p] = "count"
  /\ IF cfg.registry
     THEN /\ reg' = [reg EXCEPT !.RateAllowed = @ + 1]
          /\ resp' = [resp EXCEPT ![p].counted = Append(@, "RateAllowed")]
     ELSE UNCHANGED <<reg, resp>>
  /\ mwpc' = [mwpc EXCEPT ![p] = IF mwres[p].allowed THEN "next" ELSE "reply"]
  /\ UNCHANGED <<clock, nadv, mu, buckets, lastCleanup, pc, key, rate, now,
                 ret, snap, hist, solo, soloRet, fullSeen, lowRate, nfresh,
                 watch, pending, churn, twin, rlConf, regVars, cfg, mwres, served>>

\* if reg != nil { reg.RateRejected.Inc() } (line 235) or
\* reg.RateAllowed.Inc() (line 247); Counter.Inc is one atomic.AddUint64
Count(p) ==
  LET c == IF mwres[p].allowed THEN "RateAllowed" ELSE "RateRejected"
  IN  /\ mwpc[p] = "count"
      /\ IF cfg.registry
         THEN /\ reg' = [reg EXCEPT ![c] = @ + 1]
              /\ resp' = [resp EXCEPT ![p].counted = Append(@, c)]
         ELSE UNCHANGED <<reg, resp>>
      /\ mwpc' = [mwpc EXCEPT ![p] = IF mwres[p].allowed THEN "next" ELSE "reply"]
      /\ UNCHANGED <<clock, nadv, mu, buckets, lastCleanup, pc, key, rate, now,
                     ret, snap, hist, solo, soloRet, fullSeen, lowRate, nfresh,
                     watch, pending, churn, twin, rlConf, regVars, cfg, mwres, served>>

\* (variant: the rejection does not return, the request goes on downstream)
ReplyFallThrough(p) ==
  /\ mwpc[p] = "reply"
  /\ resp' = [resp EXCEPT ![p].retryAfter = retryAfterHeader(mwres[p].retryAfter),
                          ![p].mwErr = 429]
  /\ mwpc' = [mwpc EXCEPT ![p] = "next"]
  /\ UNCHANGED <<clock, nadv, mu, buckets, lastCleanup, pc, key, rate, now,
                 ret, snap, hist, solo, soloRet, fullSeen, lowRate, nfresh,
                 watch, pending, churn, twin, rlConf, regVars, cfg, mwres, reg, served>>

\* lines 238-242: the Retry-After header, and
\* return fiber.NewError(fiber.StatusTooManyRequests, ...)
Reply(p) ==
  /\ mwpc[p] = "reply"
  /\ resp' = [resp EXCEPT ![p].retryAfter = retryAfterHeader(mwres[p].retryAfter),
                          ![p].mwErr = 429,
                          ![p].err = 429,
                          ![p].done = TRUE]
  /\ served' = [served EXCEPT !.completed = @ + 1]
  /\ mwpc' = [mwpc EXCEPT ![p] = "idle"]
  /\ UNCHANGED <<clock, nadv, mu, buckets, lastCleanup, pc, key, rate, now,
                 ret, snap, hist, solo, soloRet, fullSeen, lowRate, nfresh,
                 watch, pending, churn, twin, rlConf, regVars, cfg, mwres, reg>>

\* return c.Next(): the downstream handler runs and returns e
Downstream(p, e) ==
  /\ mwpc[p] = "next"
  /\ resp' = [resp EXCEPT ![p].nexts = @ + 1,
                          ![p].err = e,
                          ![p].done = TRUE]
  /\ served' = [served EXCEPT !.completed = @ + 1]
  /\ mwpc' = [mwpc EXCEPT ![p] = "idle"]
  /\ UNCHANGED <<clock, nadv, mu, buckets, lastCleanup, pc, key, rate, now,
                 ret, snap, hist, solo, soloRet, fullSeen, lowRate, nfresh,
                 watch, pending, churn, twin, rlConf, regVars, cfg, mwres, reg>>

\* the clock moves by a tick between the requests: a rejected request is
\* told to wait a fraction of a second less
TickMw == Elapse(1, MaxAdvanceLive)

\* the steps of take inside a request
mwTake(p) ==
  \/ Cleanup(p)
  \/ Lookup(p)
  \/ Create(p)
  \/ Refill(p)
  \/ Decide(p)

NextMw ==
  \/ \E p \in Procs : Receive(p)
  \/ \E p \in Procs, raw \in RawKeys, r \in GetterRates : Enter(p, raw, r)
  \/ \E p \in Procs : mwTake(p)
  \/ \E p \in Procs : Returned(p)
  \/ \E p \in Procs : Count(p)
  \/ \E p \in Procs : Reply(p)
  \/ \E p \in Procs, e \in DownstreamErrs : Downstream(p, e)
  \/ TickMw

\* limiter := NewRateLimiter(n); RateLimitMiddlewareWithConfig(limiter, reg, cfg)
InitMw ==
  \E n \in RateArgs, c \in [registry : BOOLEAN, rateGetter : BOOLEAN] :
    Started({}, NewRateLimiter(n), n, c)

SpecMw == InitMw /\ [][NextMw]_vars

\* ----------------------------------------------- Registry.IncLabeled
\* everything but the registry
limiterVars == <<clock, nadv, mu, buckets, lastCleanup, pc, key, rate, now,
                 ret, snap, hist, solo, soloRet, fullSeen, lowRate, nfresh,
                 watch, pending, churn, twin, rlConf, mwVars>>

\* history: the calls of IncLabeled that have returned
RECURSIVE SumCalls(_)
SumCalls(S) ==
  IF S = {} THEN 0
  ELSE LET in == CHOOSE x \in S : TRUE
       IN  calls[in].n + SumCalls(S \ {in})

Returns == SumCalls(Inputs)

\* key := buildLabelKey(metric, labels)
BuildKey(p, in) ==
  /\ ipc[p] = "idle"
  /\ Returns + Cardinality({q \in Procs : ipc[q] # "idle"}) < MaxIncs
  /\ \E ord \in Orders(DOMAIN in.labels) :
       ikey' = [ikey EXCEPT ![p] = buildLabelKey(in.metric, in.labels, ord)]
  /\ iarg' = [iarg EXCEPT ![p] = in]
  /\ ipc' = [ipc EXCEPT ![p] = "rlock"]
  /\ UNCHANGED <<rmu, labeled, counters, ic, calls, limiterVars>>

\* r.mu.RLock(): no writer holds the mutex
RLock(p) ==
  /\ ipc[p] = "rlock"
  /\ rmu.writer = NoProc
  /\ rmu' = [rmu EXCEPT !.readers = @ \cup {p}]
  /\ ipc' = [ipc EXCEPT ![p] = "read"]
  /\ UNCHANGED <<labeled, counters, iarg, ikey, ic, calls, limiterVars>>

\* c, ok := r.labeled[key]; r.mu.RUnlock(); if !ok { ...
FastPath(p) ==
  /\ ipc[p] = "read"
  /\ rmu' = [rmu EXCEPT !.readers = @ \ {p}]
  /\ IF ikey[p] \in DOMAIN labeled
     THEN /\ ic' = [ic EXCEPT ![p] = labeled[ikey[p]]]
          /\ ipc' = [ipc EXCEPT ![p] = "inc"]
     ELSE /\ ic' = [ic EXCEPT ![p] = 0]
          /\ ipc' = [ipc EXCEPT ![p] = "wlock"]
  /\ UNCHANGED <<labeled, counters, iarg, ikey, calls, limiterVars>>

\* r.mu.Lock(): no writer and no reader holds the mutex
WLock(p) ==
  /\ ipc[p] = "wlock"
  /\ rmu.writer = NoProc
  /\ rmu.readers = {}
  /\ rmu' = [rmu EXCEPT !.writer = p]
  /\ ipc' = [ipc EXCEPT ![p] = "check"]
  /\ UNCHANGED <<labeled, counters, iarg, ikey, ic, calls, limiterVars>>

\* if c, ok = r.labeled[key]; !ok { c = &Counter{}; r.labeled[key] = c }
\* r.mu.Unlock()
SlowPath(p) ==
  /\ ipc[p] = "check"
  /\ IF ikey[p] \in DOMAIN labeled
     THEN /\ ic' = [ic EXCEPT ![p] = labeled[ikey[p]]]
          /\ UNCHANGED <<labeled, counters>>
     ELSE /\ counters' = Append(counters, 0)
          /\ labeled' = (ikey[p] :> Len(counters) + 1) @@ labeled
          /\ ic' = [ic EXCEPT ![p] = Len(counters) + 1]
  /\ rmu' = [rmu EXCEPT !.writer = NoProc]
  /\ ipc' = [ipc EXCEPT ![p] = "inc"]
  /\ UNCHANGED <<iarg, ikey, calls, limiterVars>>

\* c.Inc(): atomic.AddUint64(&c.v, 1), and the return
Inc(p) ==
  /\ ipc[p] = "inc"
  /\ counters' = [counters EXCEPT ![ic[p]] = @ + 1]
  /\ calls' = [calls EXCEPT ![iarg[p]] =
                 [n |-> @.n + 1, ctrs |-> @.ctrs \cup {ic[p]}]]
  /\ ipc' = [ipc EXCEPT ![p] = "idle"]
  /\ iarg' = [iarg EXCEPT ![p] = NoInput]
  /\ ikey' = [ikey EXCEPT ![p] = ""]
  /\ ic' = [ic EXCEPT ![p] = 0]
  /\ UNCHANGED <<rmu, labeled, limiterVars>>

IncLabeled(p) ==
  \/ RLock(p)
  \/ FastPath(p)
  \/ WLock(p)
  \/ SlowPath(p)
  \/ Inc(p)

NextReg ==
  \/ \E p \in Procs, in \in Inputs : BuildKey(p, in)
  \/ \E p \in Procs : IncLabeled(p)

\* r := NewRegistry()
InitReg == Start({})

SpecReg == InitReg /\ [][NextReg]_vars

\* ------------------------------------------------------------- the claims
\* the spec's burstCapacity(rate) = max(1, rate/2), rate/2 an integer division
BurstCapacity(r) == IF GoDiv(r, 2) < 1 THEN 1 ELSE GoDiv(r, 2)

InTake(p) == pc[p] # "idle"

\* C1: in every reachable state, under any interleaving of concurrent calls,
\* the map holds at most maxBuckets buckets, also between an eviction and the
\* insertion that follows it.
C1_BucketsBounded == Cardinality(DOMAIN buckets) <= maxBuckets

\* a call has just evicted a bucket from a full table and is about to insert
C1_Witness ==
  \E p \in Procs :
    /\ pc[p] = "create"
    /\ lastCleanup = snap.lastCleanup
    /\ Cardinality(DOMAIN snap.buckets) = maxBuckets
    /\ Cardinality(DOMAIN buckets) = maxBuckets - 1

\* C2: after every call take(key, rate), whatever the rate and also when the
\* calls of a key pass different rates or come at the same instant, the
\* key's bucket holds at least 0 and at most burstCapacity(rate) tokens.
C2_TokensWithinBurst ==
  \A p \in Procs :
    (pc[p] = "unlock" /\ key[p] \in DOMAIN buckets)
      => /\ buckets[key[p]].tokens >= 0
         /\ buckets[key[p]].tokens <= BurstCapacity(rate[p]) * Minute

\* C3: for a key whose calls all pass the same rate r >= 1, the calls
\* admitted since the bucket was created are at most burst + r * t, t the
\* minutes from the creation to the latest call and burst = max(1, r/2).
C3_RateBound ==
  \A k \in DOMAIN buckets :
    (hist[k].created >= 0 /\ ~hist[k].mixed /\ hist[k].rate >= 1)
      => hist[k].adm * Minute
           <= BurstCapacity(hist[k].rate) * Minute
              + hist[k].rate * (buckets[k].accessed - hist[k].created)

\* time has passed since the creation, the refill has admitted calls beyond
\* the first burst and the bucket is empty again (a call is rejected)
C3_Witness ==
  \E k \in DOMAIN buckets :
    /\ ~hist[k].mixed
    /\ hist[k].rate >= 1
    /\ buckets[k].accessed > hist[k].created
    /\ hist[k].adm > BurstCapacity(hist[k].rate)
    /\ hist[k].rejNow

\* C4: for an unseen key and rate r on a table that is not full, the calls
\* made at the instant of the creation are admitted until max(1, r/2) of them
\* have been, and the next one is rejected.
C4_BurstAllowance ==
  \A k \in DOMAIN buckets :
    (hist[k].created = buckets[k].accessed /\ ~hist[k].mixed)
      => /\ hist[k].admNow <= BurstCapacity(hist[k].rate)
         /\ hist[k].rejNow => hist[k].admNow = BurstCapacity(hist[k].rate)

\* a burst of more than one call has been admitted and the next call rejected
C4_Witness ==
  \E k \in DOMAIN buckets :
    /\ hist[k].created = buckets[k].accessed
    /\ ~hist[k].mixed
    /\ hist[k].rejNow
    /\ hist[k].admNow > 1

\* the scenario of C5: the bucket's first instant admitted 30 calls and
\* rejected the 31st, the calls of the current instant come one minute later
\* and one of them has been rejected
AfterOneMinute(k) ==
  /\ k \in DOMAIN buckets
  /\ hist[k].rate = 60
  /\ ~hist[k].mixed
  /\ hist[k].prevInst = hist[k].created
  /\ hist[k].prevAdm = 30
  /\ hist[k].prevRej
  /\ buckets[k].accessed = hist[k].created + Minute
  /\ hist[k].rejNow

\* C5 (as stated): at 60 a minute, after 30 calls admitted and the 31st
\* rejected at one instant, one minute later exactly 60 further calls
\* succeed before the next rejection.
C5_SixtyAfterMinute == AfterOneMinute("a") => hist["a"].admNow = 60

\* C5 (amended): ... one minute later exactly 30 further calls succeed
\* before the next rejection (the refill is capped at the burst, rate/2).
C5_ThirtyAfterMinute == AfterOneMinute("a") => hist["a"].admNow = 30

C5_Witness == AfterOneMinute("a") /\ hist["a"].admNow > 0

\* the call of p, for SoloKey, has ended as the same call ended on the
\* limiter that sees only the calls of SoloKey: the same decision and retry
\* time, and the same tokens left in the key's bucket
SameAsSolo(p) ==
  /\ ret[p] = soloRet
  /\ (SoloKey \in DOMAIN buckets) = (SoloKey \in DOMAIN solo.buckets)
  /\ (SoloKey \in DOMAIN buckets /\ SoloKey \in DOMAIN solo.buckets)
       => buckets[SoloKey].tokens = solo.buckets[SoloKey].tokens

\* C6 (as stated): under any interleaving of the calls of distinct keys, the
\* table full or not, a sweep run or not, every decision returned for a key
\* and its tokens equal those of the execution of that key's calls alone.
C6_IsolationAlways ==
  \A p \in Procs : (pc[p] = "unlock" /\ key[p] = SoloKey) => SameAsSolo(p)

\* C6 (amended): the same, in the executions where no call met a full table
\* with an unseen key (nothing was evicted) and the key's calls passed rates
\* of at least 1, after each call of the key; sweeps change nothing.
C6_IsolationWithoutEviction ==
  \A p \in Procs :
    (pc[p] = "unlock" /\ key[p] = SoloKey /\ ~fullSeen /\ ~lowRate)
      => SameAsSolo(p)

\* a call of the key is rejected while another key has a bucket, after a
\* sweep has run, nothing having been evicted
C6_Witness ==
  \E p \in Procs :
    /\ pc[p] = "unlock"
    /\ key[p] = SoloKey
    /\ ~fullSeen
    /\ ~lowRate
    /\ ~ret[p].allowed
    /\ lastCleanup > 0
    /\ \E k \in DOMAIN buckets : k # SoloKey

\* C7: at most one call is inside the critical section at a time, and each
\* call returns, and leaves the limiter in, what the whole call run alone
\* yields from the limiter it found when it took the lock.
C7_Serialized ==
  /\ Cardinality({p \in Procs : InTake(p)}) <= 1
  /\ \A p \in Procs :
       pc[p] = "unlock"
         => [buckets |-> buckets, lastCleanup |-> lastCleanup, ret |-> ret[p]]
              \in TakeOutcomes(snap, key[p], rate[p], now[p])

\* a call ends rejected, after a sweep, on a table other calls have filled
C7_Witness ==
  \E p \in Procs :
    /\ pc[p] = "unlock"
    /\ ~ret[p].allowed
    /\ lastCleanup > 0
    /\ Cardinality(DOMAIN buckets) = maxBuckets

\* C8: a rejected call whose bucket holds x < 1 tokens after the refill
\* returns a retryAfter of at least (1 - x) / r minutes and of at least one
\* second; an admitted call returns a retryAfter of 0.  ((1 - x) / r minutes
\* are (Minute - tokens) / r ticks.)
C8_RetryAfterSufficient ==
  \A p \in Procs :
    pc[p] = "unlock"
      => /\ ret[p].allowed => ret[p].retryAfter = 0
         /\ (~ret[p].allowed /\ key[p] \in DOMAIN buckets
               /\ buckets[key[p]].tokens < Minute)
              => /\ ret[p].retryAfter >= Second
                 /\ rate[p] > 0 =>
                      ret[p].retryAfter * rate[p]
                        >= Minute - buckets[key[p]].tokens

\* the call of p has run a sweep
Swept(p) == lastCleanup = now[p] /\ snap.lastCleanup # now[p]

\* bucket k was stale when the call of p took the lock
WasStale(p, k) ==
  /\ k \in DOMAIN snap.buckets
  /\ snap.buckets[k].accessed < now[p] - bucketInactiveThreshold

\* C9: a bucket last accessed more than 15 minutes ago is gone after the
\* next call that runs a sweep, whichever its key; when that key is the
\* stale one, its bucket is there again, created anew by the call.
C9_StaleSwept ==
  \A p \in Procs :
    (pc[p] = "unlock" /\ Swept(p))
      => \A k \in Keys :
           WasStale(p, k)
             => \/ k \notin DOMAIN buckets
                \/ /\ k = key[p]
                   /\ buckets[k].last = now[p]
                   /\ buckets[k].accessed = now[p]
                   /\ buckets[k].tokens = (BurstCapacity(rate[p]) - 1) * Minute

\* a sweep has deleted the stale bucket of another key and kept a bucket
\* that was not stale
C9_Witness ==
  \E p \in Procs :
    /\ pc[p] = "unlock"
    /\ Swept(p)
    /\ \E k \in Keys \ {key[p]} : WasStale(p, k) /\ k \notin DOMAIN buckets
    /\ \E j \in DOMAIN snap.buckets : ~WasStale(p, j) /\ j \in DOMAIN buckets

\* C10: from an empty limiter, after one call for each of maxBuckets + 1
\* distinct unseen keys, no sweep in between, the table holds exactly
\* maxBuckets buckets, the last key has one, and the key missing is one that
\* was accessed longest ago.
C10_OldestEvicted ==
  \A p \in Procs :
    (pc[p] = "unlock" /\ nfresh = maxBuckets + 1 /\ lastCleanup = 0)
      => /\ Cardinality(DOMAIN buckets) = maxBuckets
         /\ key[p] \in DOMAIN buckets
         /\ \E v \in DOMAIN snap.buckets :
              /\ v \notin DOMAIN buckets
              /\ \A j \in DOMAIN snap.buckets :
                   snap.buckets[v].accessed <= snap.buckets[j].accessed

\* the table as the lookup of the call of p found it: the table at Lock,
\* less what the call's own sweep deleted
FoundTable(p) ==
  IF SweepDue(snap.lastCleanup, now[p])
  THEN cleanupStaleBuckets(snap.buckets, now[p])
  ELSE snap.buckets

\* the call of p has refilled the bucket it found for its key, d > 0 ticks
\* after the bucket's last call
RefilledAfterIdle(p) ==
  /\ pc[p] = "decide"
  /\ key[p] \in DOMAIN FoundTable(p)
  /\ now[p] > snap.buckets[key[p]].accessed

\* t0 + d * r, where t0 are the tokens the call of p found and d the time
\* since the bucket's last call (tokens in 1/Minute, d in ticks)
IdleRefill(p) ==
  snap.buckets[key[p]].tokens
    + (now[p] - snap.buckets[key[p]].accessed) * rate[p]

\* C11: a bucket holding t0 tokens that gets no call for a duration d > 0
\* offers the next call take(key, r), before it consumes, exactly
\* min(t0 + d * r, max(1, r/2)) tokens.
C11_IdleRefill ==
  \A p \in Procs :
    RefilledAfterIdle(p)
      => buckets[key[p]].tokens
           = (IF IdleRefill(p) <= BurstCapacity(rate[p]) * Minute
              THEN IdleRefill(p) ELSE BurstCapacity(rate[p]) * Minute)

\* the idle time has refilled more than the bucket may hold
C11_Witness ==
  \E p \in Procs :
    /\ RefilledAfterIdle(p)
    /\ snap.buckets[key[p]].tokens < Minute
    /\ IdleRefill(p) > BurstCapacity(rate[p]) * Minute

\* C12: a call with an unseen key on a full, non-empty table always gets a
\* victim evicted: it is never answered by the fixed rejection of one minute
\* and its key gets a bucket.
C12_EvictionSucceeds ==
  \A p \in Procs :
    (/\ pc[p] = "unlock"
     /\ key[p] \notin DOMAIN FoundTable(p)
     /\ DOMAIN FoundTable(p) # {}
     /\ Cardinality(DOMAIN FoundTable(p)) >= maxBuckets)
      => /\ key[p] \in DOMAIN buckets
         /\ ret[p] # Rejected(Minute)

\* the call of p evicted a bucket: its key was unseen, the table full, and
\* the key has a bucket now
Evicted(p) ==
  /\ pc[p] = "unlock"
  /\ key[p] \notin DOMAIN FoundTable(p)
  /\ Cardinality(DOMAIN FoundTable(p)) >= maxBuckets
  /\ key[p] \in DOMAIN buckets

\* C20: when the call of an unseen key on a full table evicts, exactly one
\* bucket is deleted, no bucket of the table was accessed before it, and
\* every other bucket is left as it was; a call whose key has a bucket
\* evicts nothing.
C20_SingleOldestVictim ==
  \A p \in Procs :
    /\ Evicted(p)
         => \E v \in DOMAIN FoundTable(p) :
              /\ DOMAIN buckets = (DOMAIN FoundTable(p) \ {v}) \cup {key[p]}
              /\ \A j \in DOMAIN FoundTable(p) :
                   FoundTable(p)[v].accessed <= FoundTable(p)[j].accessed
              /\ \A j \in DOMAIN FoundTable(p) \ {v} :
                   buckets[j] = FoundTable(p)[j]
    /\ (pc[p] = "unlock" /\ key[p] \in DOMAIN FoundTable(p))
         => DOMAIN buckets = DOMAIN FoundTable(p)

\* a call has evicted the one bucket accessed before all the others
C20_Witness ==
  \E p \in Procs :
    /\ Evicted(p)
    /\ \E v \in DOMAIN FoundTable(p) \ DOMAIN buckets :
         \A j \in DOMAIN FoundTable(p) \ {v} :
           FoundTable(p)[v].accessed < FoundTable(p)[j].accessed

\* C13: every call of take ends, whichever way it returns, and has released
\* the mutex when it has; with callers scheduled fairly, every caller that
\* has called take gets its decision, however many call at once.
C13_EveryCallReturns ==
  /\ [](\A p \in Procs : pc[p] \in {"idle", "lock"} => mu # p)
  /\ \A p \in Procs : (pc[p] # "idle") ~> (pc[p] = "idle")

\* a caller waits for the mutex while the call that holds it is about to
\* leave by the early return of a failed eviction
C13_Witness ==
  \E p \in Procs, q \in Procs :
    /\ pc[p] = "lock"
    /\ pc[q] = "unlock"
    /\ key[q] \notin DOMAIN buckets

\* bucket k has been without access for more than the inactivity threshold
Inactive(k) ==
  /\ k \in DOMAIN buckets
  /\ clock - buckets[k].accessed > bucketInactiveThreshold

C14_RejectOrNext ==
  \A p \in Procs :
    /\ (mwpc[p] \in {"reply", "next"} \/ resp[p].done) =>
         IF mwres[p].allowed
         THEN /\ mwpc[p] # "reply"
              /\ resp[p].mwErr = 0
              /\ resp[p].retryAfter = -1
         ELSE /\ mwpc[p] # "next"
              /\ resp[p].nexts = 0
    /\ resp[p].done =>
         IF mwres[p].allowed
         THEN resp[p].nexts = 1
         ELSE /\ resp[p].retryAfter >= 0
              /\ resp[p].mwErr = 429
              /\ resp[p].err = 429

\* one request was rejected and answered, another admitted and passed on
C14_Witness ==
  \E p, q \in Procs :
    /\ resp[p].done /\ ~mwres[p].allowed /\ resp[p].err = 429
    /\ resp[q].done /\ mwres[q].allowed /\ resp[q].nexts = 1

\* ---------------------------------------------------------------- C15
\* the requests the middleware has answered with a rejection
Answered429 == {p \in Procs : resp[p].done /\ ~mwres[p].allowed}

\* C15 (as claimed): the Retry-After header of a rejected request is the
\* limiter's retryAfter rounded to the nearest whole number of seconds (a
\* half rounds up, as math.Round does): it is within half a second of it.
C15_HeaderNearest ==
  \A p \in Answered429 :
    LET d == mwres[p].retryAfter
        h == resp[p].retryAfter
    IN  /\ 2 * h * Second <= 2 * d + Second
        /\ 2 * h * Second > 2 * d - Second

\* C15 (amended): the Retry-After header of a rejected request is the number
\* of whole seconds in the limiter's retryAfter, the fraction dropped.
C15_HeaderTruncated ==
  \A p \in Answered429 :
    LET d == mwres[p].retryAfter
        h == resp[p].retryAfter
    IN  /\ h * Second <= d
        /\ d < (h + 1) * Second

\* a rejection was answered whose retryAfter is not a whole number of seconds
C15_Witness ==
  \E p \in Answered429 :
    /\ mwres[p].retryAfter % Second # 0
    /\ resp[p].retryAfter >= 1

\* ---------------------------------------------------------------- C16
\* every request is out of the middleware
AllCompleted == \A p \in Procs : mwpc[p] = "idle"

\* C16: with a registry, a request that has been answered has incremented
\* one counter, once: RateAllowed if the limiter admitted it, RateRejected
\* if not; and when every request has been answered, RateAllowed +
\* RateRejected is the number of requests and RateAllowed the number of
\* admissions.
C16_OneCounterPerRequest ==
  cfg.registry =>
    /\ \A p \in Procs :
         resp[p].done =>
           resp[p].counted = IF mwres[p].allowed
                             THEN <<"RateAllowed">>
                             ELSE <<"RateRejected">>
    /\ AllCompleted =>
         /\ reg.RateAllowed + reg.RateRejected = served.received
         /\ reg.RateAllowed = served.admitted

\* concurrent requests, admitted and rejected, have all been answered
C16_Witness ==
  /\ cfg.registry
  /\ AllCompleted
  /\ served.received = MaxRequests
  /\ reg.RateAllowed >= 1
  /\ reg.RateRejected >= 1
  /\ \A p \in Procs : resp[p].done

\* ---------------------------------------------------------------- C18
\* C18: the limiter NewRateLimiter(n) returns has an empty map, maxBuckets =
\* 10000 and the rate n if n > 0, 600 if not; without a RateGetter, every
\* call of take the middleware makes has this rate.
C18_Defaults ==
  /\ served.received = 0 => buckets = <<>>
  /\ rlMaxBuckets = 10000
  /\ ratePerMinArg > 0 => ratePerMin = ratePerMinArg
  /\ ratePerMinArg <= 0 => ratePerMin = 600
  /\ ~cfg.rateGetter =>
       \A p \in Procs : pc[p] # "idle" => rate[p] = ratePerMin

\* a request without RateGetter got its bucket at the rate 600 that
\* replaced an argument <= 0
C18_Witness ==
  \E p \in Procs :
    /\ ratePerMinArg <= 0
    /\ ~cfg.rateGetter
    /\ pc[p] = "unlock"
    /\ rate[p] = 600
    /\ key[p] \in DOMAIN buckets
    /\ buckets[key[p]].tokens = maxTokens(600) - Minute

\* ---------------------------------------------------------------- C19
\* every call of IncLabeled has returned
AllReturned == \A p \in Procs : ipc[p] = "idle"

\* C19: once the calls of IncLabeled have returned, each (metric, label
\* set) that was called has one counter of its own, in whatever order the
\* labels came, created once even when the first calls for it were
\* concurrent, and its value is the number of the calls made for it.
C19_PerLabelSet ==
  AllReturned =>
    \A in \in Inputs :
      calls[in].n > 0 =>
        /\ \E c \in Range(labeled) :
             /\ calls[in].ctrs = {c}
             /\ counters[c] = calls[in].n
        /\ \A other \in Inputs :
             (other # in /\ calls[other].n > 0)
               => calls[other].ctrs # calls[in].ctrs

\* what holds instead, per key: no counter is created and dropped, the keys
\* have a counter each, and the calls of one (metric, label set) all
\* increment the same counter; the counters add up to the calls
RECURSIVE SumSeq(_)
SumSeq(s) == IF s = <<>> THEN 0 ELSE s[1] + SumSeq(Tail(s))

IncLabeledPerKey ==
  /\ Len(counters) = Cardinality(DOMAIN labeled)
  /\ Range(labeled) = 1..Len(counters)
  /\ \A in \in Inputs : Cardinality(calls[in].ctrs) <= 1
  /\ AllReturned => SumSeq(counters) = Returns

\* ---------------------------------------------------------------- C21
\* the call of p met a full table without its key, and has returned without
\* a bucket for it: the eviction failed
EvictionHasFailed(p) ==
  /\ pc[p] = "unlock"
  /\ key[p] \notin DOMAIN FoundTable(p)
  /\ Cardinality(DOMAIN FoundTable(p)) >= rlMaxBuckets
  /\ key[p] \notin DOMAIN buckets

\* C21: a call whose eviction fails, for an unseen key on a full table,
\* returns (false, 1 minute) and leaves the table as its own sweep, if it
\* ran one, left it: no bucket created, deleted or touched, no growth.
C21_FailedEvictionFrame ==
  \A p \in Procs :
    EvictionHasFailed(p)
      => /\ ret[p] = [allowed |-> FALSE, retryAfter |-> Minute]
         /\ buckets = FoundTable(p)
         /\ Cardinality(DOMAIN buckets) = Cardinality(DOMAIN FoundTable(p))

\* an eviction has failed in a call that ran a sweep first, on a table
\* that holds buckets
C21_Witness ==
  \E p \in Procs :
    /\ EvictionHasFailed(p)
    /\ Swept(p)
    /\ DOMAIN buckets # {}

\* ---------------------------------------------------------------- C22
\* the call of p decides in this step
Decides(p) == pc[p] = "decide" /\ pc'[p] = "unlock"

\* what a deciding step does to the bucket the refill left
DecisionStep ==
  \A p \in Procs :
    Decides(p) =>
      LET b  == buckets[key[p]]
          b2 == buckets'[key[p]]
      IN  /\ ret'[p].allowed <=> b.tokens >= Minute
          /\ ret'[p].allowed => b2.tokens = b.tokens - Minute
          /\ ~ret'[p].allowed => b2.tokens = b.tokens
          /\ b2.last = b.last
          /\ b2.accessed = b.accessed

\* C22: a call is admitted iff its bucket, after the refill, holds at least
\* 1 token; the admission takes exactly 1 token from it, a rejection leaves
\* the refilled tokens as they are; nothing else of the bucket changes.
C22_Decision == [][DecisionStep]_vars

\* a call has been rejected on a bucket that the refill left with a part
\* of a token, after calls of the key were admitted
C22_Witness ==
  \E p \in Procs :
    /\ pc[p] = "unlock"
    /\ ~ret[p].allowed
    /\ key[p] \in DOMAIN buckets
    /\ buckets[key[p]].tokens > 0
    /\ buckets[key[p]].tokens < Minute
    /\ hist[key[p]].adm > 0

\* ---------------------------------------------------------------- C23
\* the call of p has evicted a bucket: its key was not in the table its
\* sweep left, which was full, and has a bucket now
HasEvicted(p) ==
  /\ key[p] \in DOMAIN buckets
  /\ key[p] \notin DOMAIN snap.buckets \/ WasStale(p, key[p])
  /\ Cardinality({k \in DOMAIN snap.buckets : ~WasStale(p, k)}) >= rlMaxBuckets

\* C23: every call that ends with a bucket for its key, admitted or
\* rejected, leaves that bucket's accessed at the call's now; and a bucket
\* whose latest call, rejected or not, is no more than 15 minutes before a
\* sweep is not deleted by the sweep (it goes only if the call evicts).
C23_TouchOnEveryCall ==
  \A p \in Procs :
    pc[p] = "unlock" =>
      /\ key[p] \in DOMAIN buckets => buckets[key[p]].accessed = now[p]
      /\ \A k \in DOMAIN snap.buckets :
           (/\ Swept(p)
            /\ snap.buckets[k].accessed >= now[p] - bucketInactiveThreshold
            /\ k \notin DOMAIN buckets)
             => HasEvicted(p)

\* a bucket created more than 15 minutes before a sweep, whose latest call
\* was rejected less than 15 minutes before it, is still there after it
C23_Witness ==
  \E p \in Procs, k \in DOMAIN buckets :
    /\ pc[p] = "unlock"
    /\ Swept(p)
    /\ k # key[p]
    /\ hist[k].rejNow
    /\ hist[k].created >= 0
    /\ hist[k].created < now[p] - bucketInactiveThreshold
    /\ buckets[k].accessed >= now[p] - bucketInactiveThreshold

\* ---------------------------------------------------------------- C24
\* the step of the call of p that reads the clock and may sweep
SweepStep(p) ==
  LET due == clock - lastCleanup > 5 * Minute
  IN  /\ due =>
           /\ DOMAIN buckets' =
                {k \in DOMAIN buckets : buckets[k].accessed >= clock - 15 * Minute}
           /\ \A k \in DOMAIN buckets' : buckets'[k] = buckets[k]
           /\ lastCleanup' = clock
      /\ ~due =>
           /\ buckets' = buckets
           /\ lastCleanup' = lastCleanup

\* what every step does about the sweep
SweepSteps ==
  /\ \A p \in Procs : (pc[p] = "cleanup" /\ pc'[p] = "lookup") => SweepStep(p)
  /\ lastCleanup' # lastCleanup => \E p \in Procs : pc[p] = "cleanup"

\* C24: a call sweeps iff its now is more than 5 minutes after lastCleanup;
\* the sweep deletes exactly the buckets accessed more than 15 minutes
\* before now, leaves the others as they are and sets lastCleanup to now; a
\* call that does not sweep leaves lastCleanup as it is.
C24_SweepExact == [][SweepSteps]_vars

\* a sweep has just deleted a bucket and kept one accessed exactly 15
\* minutes before
C24_Witness ==
  \E p \in Procs :
    /\ pc[p] = "lookup"
    /\ Swept(p)
    /\ \E k \in DOMAIN snap.buckets : k \notin DOMAIN buckets
    /\ \E k \in DOMAIN buckets :
         buckets[k].accessed = now[p] - bucketInactiveThreshold

\* ---------------------------------------------------------------- C25
\* the caller inside take, if there is one
Running == {p \in Procs : mu = p /\ pc[p] \notin {"idle", "lock"}}

\* what every step does to the buckets: a bucket is written or created only
\* by a step of a call for its own key, and the limiter changes only in the
\* steps of a call
LocalSteps ==
  /\ \A k \in DOMAIN buckets' :
       (k \notin DOMAIN buckets \/ buckets'[k] # buckets[k])
         => \E p \in Running : key[p] = k
  /\ (buckets' # buckets \/ lastCleanup' # lastCleanup) => Running # {}

\* C25: a bucket's tokens, last and accessed change only inside a call of
\* take for the bucket's own key; a call for another key can only delete
\* the bucket; nothing changes between the calls, however long.
C25_LazyLocal == [][LocalSteps]_vars

\* a call has written its key's bucket while another bucket, idle for some
\* time, is as it was
C25_Witness ==
  \E p \in Procs :
    /\ pc[p] = "unlock"
    /\ key[p] \in DOMAIN snap.buckets
    /\ key[p] \in DOMAIN buckets
    /\ buckets[key[p]] # snap.buckets[key[p]]
    /\ \E k \in DOMAIN buckets :
         /\ k # key[p]
         /\ k \in DOMAIN snap.buckets
         /\ buckets[k] = snap.buckets[k]
         /\ buckets[k].last < now[p]

\* ---------------------------------------------------------------- C26
\* the call of p comes back for a key whose latest call, at the same rate
\* r >= 1, was rejected, no sooner than that call told it to
ComesBack(p) ==
  LET h == pending[key[p]]
  IN  /\ pc[p] = "unlock"
      /\ h.retryAfter > 0
      /\ h.rate = rate[p]
      /\ rate[p] >= 1
      /\ now[p] >= h.at + h.retryAfter

\* C26: when a call for k at rate r >= 1 is rejected at t with retryAfter
\* d, the next call for k at rate r, made at t + d or later, is admitted,
\* whatever the calls for other keys in between.
C26_RetryHintSufficient ==
  \A p \in Procs : ComesBack(p) => ret[p].allowed

\* ---------------------------------------------------------------- C27
\* the keys followed that have had a bucket, always at one rate r >= 1
FixedRateKeys ==
  {k \in Keys : churn[k].first >= 0 /\ ~churn[k].mixed /\ churn[k].rate >= 1}

\* C27 (as claimed): for a key always used at the rate r >= 1, whatever the
\* calls for other keys, evictions included, the calls admitted in a window
\* of t minutes (here: from the key's first call to its latest) are at most
\* max(1, r/2) + r * t.
C27_RateBoundUnderChurn ==
  \A k \in FixedRateKeys :
    churn[k].adm * Minute
      <= BurstCapacity(churn[k].rate) * Minute
         + churn[k].rate * (churn[k].latest - churn[k].first)

\* C27 (amended): each eviction of the key's bucket gives the key a new
\* burst: with e evictions of its bucket in the window, the calls admitted
\* are at most (1 + e) * max(1, r/2) + r * t.
C27_RateBoundPerEviction ==
  \A k \in FixedRateKeys :
    churn[k].adm * Minute
      <= (1 + churn[k].evicted) * BurstCapacity(churn[k].rate) * Minute
         + churn[k].rate * (churn[k].latest - churn[k].first)

\* a key whose bucket was evicted has been admitted more often than its
\* burst and the time since its first call allow
C27_Witness ==
  \E k \in FixedRateKeys :
    /\ churn[k].evicted > 0
    /\ churn[k].adm * Minute
         > BurstCapacity(churn[k].rate) * Minute
           + churn[k].rate * (churn[k].latest - churn[k].first)

\* ---------------------------------------------------------------- C28
\* the call of p is for a key always used at one rate r >= 1, whose bucket
\* was never evicted
NeverEvicted(p) ==
  LET c == churn[key[p]]
  IN  /\ pc[p] = "unlock"
      /\ rate[p] >= 1
      /\ c.first # -2
      /\ c.evicted = 0
      /\ ~c.mixed
      /\ c.first >= 0 => c.rate = rate[p]
      /\ key[p] \notin EvictedBy(p)

\* C28: for a key always used at the same rate r >= 1 and never evicted,
\* each call returns the decision and the retryAfter that the limiter which
\* got the same calls and never swept returns.
C28_SweepTransparent ==
  \A p \in Procs : NeverEvicted(p) => TwinMatches(p) # {}

\* ---------------------------------------------------------------- C29
\* C29: when a call of take made at time t returns, every bucket of the table
\* has been accessed at t - 20 minutes or later (the inactivity threshold
\* plus the sweep interval).
C29_BoundedStaleness ==
  \A p \in Procs :
    pc[p] = "unlock"
      => \A k \in DOMAIN buckets : buckets[k].accessed >= now[p] - 20 * Minute

\* a call that ran no sweep returns and leaves a bucket that a sweep had
\* kept, without access for more than the inactivity threshold
C29_Witness ==
  \E p \in Procs :
    /\ pc[p] = "unlock"
    /\ ~Swept(p)
    /\ lastCleanup > 0
    /\ \E k \in DOMAIN buckets :
         buckets[k].accessed < now[p] - bucketInactiveThreshold

\* ---------------------------------------------------------------- C30
\* what every step leaves: buckets whose two timestamps are equal, no
\* timestamp of a bucket earlier than it was, and a lastCleanup no earlier
\* than it was
TimestampStep ==
  /\ \A k \in DOMAIN buckets' : buckets'[k].last = buckets'[k].accessed
  /\ \A k \in DOMAIN buckets \cap DOMAIN buckets' :
       /\ buckets'[k].last >= buckets[k].last
       /\ buckets'[k].accessed >= buckets[k].accessed
  /\ lastCleanup' >= lastCleanup

\* C30: with a clock that does not go back, every bucket has last equal to
\* accessed in every reachable state, and no step decreases a bucket's last,
\* a bucket's accessed or lastCleanup.
C30_Timestamps == [][TimestampStep]_vars

\* a call has run a sweep, which kept its key's bucket, and has touched and
\* refilled that bucket: lastCleanup and both timestamps are later than they
\* were, and the timestamps are equal
C30_Witness ==
  \E p \in Procs :
    /\ pc[p] = "decide"
    /\ Swept(p)
    /\ lastCleanup > snap.lastCleanup
    /\ key[p] \in DOMAIN snap.buckets
    /\ buckets[key[p]].last > snap.buckets[key[p]].last
    /\ buckets[key[p]].accessed > snap.buckets[key[p]].accessed
    /\ buckets[key[p]].last = buckets[key[p]].accessed
====
